---- MODULE Spec2Model ----
(***************************************************************************)
(* Wash-trading detector (src/wash_detector.py): the three heuristics, the *)
(* manipulation scorer, the label, the score correlation and the flow of   *)
(* main().                                                                 *)
(*                                                                         *)
(* Python floats are IEEE-754 doubles.  They are modelled bit-exactly for  *)
(* the finite, normal values the program computes with: a double is a      *)
(* record [sign, mant, exp] whose value is (-1)^sign * mant * 2^exp, mant  *)
(* being a sequence of PREC bits, most significant first, with a leading   *)
(* 1 (the empty sequence for zero).  Every operation computes the exact    *)
(* result and rounds it to nearest, ties to even, as the hardware does.    *)
(***************************************************************************)
EXTENDS Integers, Sequences, FiniteSets, TLC

\* ------------------------------------------------------------------------
\* Natural numbers of any size, as bit sequences (most significant first,
\* no leading zero, <<>> for 0)
\* ------------------------------------------------------------------------

Zeros(n) == [i \in 1..n |-> 0]

Max(a, b) == IF a >= b THEN a ELSE b

Min(a, b) == IF a <= b THEN a ELSE b

Strip(b) ==
    LET ones == {i \in 1..Len(b) : b[i] = 1}
    IN  IF ones = {} THEN <<>>
        ELSE SubSeq(b, CHOOSE i \in ones : \A j \in ones : i <= j, Len(b))

PadLeft(b, n) == Zeros(n - Len(b)) \o b

\* the number of bits of n, for 0 <= n < 2^30
BitLen(n) == CHOOSE k \in 0..30 : n < 2^k /\ (k = 0 \/ n >= 2^(k - 1))

\* the k low bits of n
LowBits(n, k) == [i \in 1..k |-> (n \div 2^(k - i)) % 2]

Bin(n) == LowBits(n, BitLen(n))

\* <<carry out>> \o the bits lo..hi of x + y + c (x, y of equal length);
\* halving, and settling the carry of the right half before the left half
\* is entered, keeps the evaluation shallow
RECURSIVE AddBits(_, _, _, _, _)
AddBits(x, y, lo, hi, c) ==
    IF lo = hi
    THEN LET s == x[lo] + y[lo] + c IN <<s \div 2, s % 2>>
    ELSE LET mid   == (lo + hi) \div 2
             right == AddBits(x, y, mid + 1, hi, c)
         IN  IF right[1] = 0
             THEN AddBits(x, y, lo, mid, 0) \o Tail(right)
             ELSE AddBits(x, y, lo, mid, 1) \o Tail(right)

BAdd(x, y) ==
    LET n == Max(Len(x), Len(y))
    IN  IF n = 0 THEN <<>>
        ELSE Strip(AddBits(PadLeft(x, n), PadLeft(y, n), 1, n, 0))

\* <<borrow out>> \o the bits lo..hi of x - y - b
RECURSIVE SubBits(_, _, _, _, _)
SubBits(x, y, lo, hi, b) ==
    IF lo = hi
    THEN LET d == x[lo] - y[lo] - b IN <<IF d < 0 THEN 1 ELSE 0, d % 2>>
    ELSE LET mid   == (lo + hi) \div 2
             right == SubBits(x, y, mid + 1, hi, b)
         IN  IF right[1] = 0
             THEN SubBits(x, y, lo, mid, 0) \o Tail(right)
             ELSE SubBits(x, y, lo, mid, 1) \o Tail(right)

\* x - y for x >= y
BSub(x, y) ==
    LET n == Len(x)
    IN  IF n = 0 THEN <<>>
        ELSE Strip(Tail(SubBits(x, PadLeft(y, n), 1, n, 0)))

\* x < y for bit sequences of equal length
LexLess(x, y) ==
    \E i \in 1..Len(x) : x[i] < y[i] /\ \A j \in 1..(i - 1) : x[j] = y[j]

BLess(x, y) ==
    \/ Len(x) < Len(y)
    \/ Len(x) = Len(y) /\ LexLess(x, y)

\* x times the number the bits lo..hi of y spell
RECURSIVE MulBits(_, _, _, _)
MulBits(x, y, lo, hi) ==
    IF \A i \in lo..hi : y[i] = 0 THEN <<>>
    ELSE IF lo = hi THEN x
    ELSE LET mid  == (lo + hi) \div 2
             left == MulBits(x, y, lo, mid)
         IN  BAdd(IF left = <<>> THEN <<>> ELSE left \o Zeros(hi - mid),
                  MulBits(x, y, mid + 1, hi))

BMul(x, y) == MulBits(x, y, 1, Len(y))

\* ------------------------------------------------------------------------
\* IEEE-754 binary64 values
\* ------------------------------------------------------------------------

\* significand width of a Python float
PREC == 53

FZero == [sign |-> 0, mant |-> <<>>, exp |-> 0]

IsZero(x) == x.mant = <<>>

\* the double nearest to (-1)^s * b * 2^e (ties to even); b has no leading 0
FRound(s, b, e) ==
    IF b = <<>> THEN FZero
    ELSE IF Len(b) <= PREC
    THEN [sign |-> s, mant |-> b \o Zeros(PREC - Len(b)),
          exp |-> e - (PREC - Len(b))]
    ELSE LET keep   == SubSeq(b, 1, PREC)
             guard  == b[PREC + 1]
             sticky == \E i \in (PREC + 2)..Len(b) : b[i] = 1
             up     == guard = 1 /\ (sticky \/ keep[PREC] = 1)
             k2     == IF up THEN BAdd(keep, <<1>>) ELSE keep
             e2     == e + Len(b) - PREC
         IN  IF Len(k2) > PREC
             THEN [sign |-> s, mant |-> SubSeq(k2, 1, PREC), exp |-> e2 + 1]
             ELSE [sign |-> s, mant |-> k2, exp |-> e2]

\* float(n) for an integer n
FromInt(n) == IF n >= 0 THEN FRound(0, Bin(n), 0) ELSE FRound(1, Bin(-n), 0)

FNeg(x) == IF IsZero(x) THEN x ELSE [x EXCEPT !.sign = 1 - x.sign]

FAbs(x) == [x EXCEPT !.sign = 0]

\* |x| < |y|
MagLess(x, y) ==
    IF IsZero(y) THEN FALSE
    ELSE IF IsZero(x) THEN TRUE
    ELSE \/ x.exp < y.exp
         \/ x.exp = y.exp /\ LexLess(x.mant, y.mant)

\* x < y
FLess(x, y) ==
    IF x.sign = 1 /\ y.sign = 0 THEN TRUE
    ELSE IF x.sign = 0 /\ y.sign = 1 THEN FALSE
    ELSE IF x.sign = 0 THEN MagLess(x, y)
    ELSE MagLess(y, x)

\* x <= y
FLeq(x, y) == ~FLess(y, x)

\* x + y
FAdd(x, y) ==
    IF IsZero(x) THEN y
    ELSE IF IsZero(y) THEN x
    ELSE LET e  == Min(x.exp, y.exp)
             bx == x.mant \o Zeros(x.exp - e)
             by == y.mant \o Zeros(y.exp - e)
         IN  IF x.sign = y.sign THEN FRound(x.sign, BAdd(bx, by), e)
             ELSE IF bx = by THEN FZero
             ELSE IF BLess(bx, by) THEN FRound(y.sign, BSub(by, bx), e)
             ELSE FRound(x.sign, BSub(bx, by), e)

\* x - y
FSub(x, y) == FAdd(x, FNeg(y))

\* x * y
FMul(x, y) ==
    IF IsZero(x) \/ IsZero(y) THEN FZero
    ELSE FRound((x.sign + y.sign) % 2, BMul(x.mant, y.mant), x.exp + y.exp)

\* k further quotient bits of rem / t (rem < t < 2^21), nine at a time,
\* followed by one bit telling whether a remainder is left
RECURSIVE QuotBits(_, _, _)
QuotBits(rem, t, k) ==
    IF k = 0 THEN <<IF rem = 0 THEN 0 ELSE 1>>
    ELSE LET c == Min(k, 9)
             n == rem * 2^c
         IN  LowBits(n \div t, c) \o QuotBits(n % t, t, k - c)

\* the double nearest to a / t for integers 0 <= a, 0 < t below 2^20: the
\* value of a Python int / int, of float(a) / float(t), and of a decimal
\* literal such as 0.1 (a = 1, t = 10)
FromRat(a, t) ==
    IF a = 0 THEN FZero
    ELSE LET sh == BitLen(a) - BitLen(t)
             a1 == IF sh < 0 THEN a * 2^(-sh) ELSE a
             t1 == IF sh > 0 THEN t * 2^sh ELSE t
             lo == IF a1 < t1 THEN 1 ELSE 0
             a2 == IF lo = 1 THEN 2 * a1 ELSE a1
         IN  FRound(0, <<1>> \o QuotBits(a2 - t1, t1, PREC + 1),
                    sh - lo - (PREC + 2))

\* min(x, y) and max(x, y) of Python, which return x unless y is smaller
\* (larger)
FMin(x, y) == IF FLess(y, x) THEN y ELSE x

FMax(x, y) == IF FLess(x, y) THEN y ELSE x

\* x / y for doubles whose significands have at most 20 significant bits
\* (whole numbers and short binary fractions, as the volumes and depths of
\* this model are): the double nearest to the exact quotient
OddPart(x) ==
    LET last == CHOOSE i \in 1..PREC :
                    x.mant[i] = 1 /\ \A j \in (i + 1)..PREC : x.mant[j] = 0
        v[i \in 0..last] == IF i = 0 THEN 0 ELSE 2 * v[i - 1] + x.mant[i]
    IN  [num |-> v[last], exp |-> x.exp + (PREC - last)]

FDiv(x, y) ==
    IF IsZero(x) THEN FZero
    ELSE LET ox == OddPart(x)
             oy == OddPart(y)
             q  == FromRat(ox.num, oy.num)
         IN  [sign |-> (x.sign + y.sign) % 2, mant |-> q.mant,
              exp |-> q.exp + ox.exp - oy.exp]

\* the float constants of the program
F0_01 == FromRat(1, 100)

F0_05 == FromRat(5, 100)

F0_1 == FromRat(1, 10)

F0_2 == FromRat(2, 10)

F0_3 == FromRat(3, 10)

F0_5 == FromRat(5, 10)

F0_6 == FromRat(6, 10)

F1_0 == FromInt(1)

\* Python's None, and a value that is present
None == [some |-> FALSE, val |-> FZero]

Some(x) == [some |-> TRUE, val |-> x]

\* ------------------------------------------------------------------------
\* Trades.  A trade is a record [amount, side].  An amount is the float the
\* exchange client delivers, given by the digits of its shortest decimal
\* representation: the value is (-1)^neg * 0.d1 d2 ... dn * 10^pt, d1 # 0,
\* with no digits for zero.  side is "buy", "sell", anything else, or
\* "<none>" when the key is missing or None.
\* ------------------------------------------------------------------------

Amount(neg, digits, pt) == [neg |-> neg, digits |-> digits, pt |-> pt]

IsPositive(a) == ~a.neg /\ a.digits # <<>>

DigitChar == <<"0", "1", "2", "3", "4", "5", "6", "7", "8", "9">>

Chars(digits) == [i \in 1..Len(digits) |-> DigitChar[digits[i] + 1]]

CharZeros(n) == [i \in 1..n |-> "0"]

\* str(x) for a float x: repr's shortest digits, in exponent notation when
\* the decimal point falls more than three places left of the digits or
\* more than sixteen places right of their start
FloatRepr(a) ==
    LET n    == Len(a.digits)
        d    == Chars(a.digits)
        sgn  == IF a.neg THEN <<"-">> ELSE <<>>
        e    == a.pt - 1
        ae   == IF e < 0 THEN -e ELSE e
        expo == <<"e", IF e < 0 THEN "-" ELSE "+">>
                \o (IF ae < 100 THEN Chars(<<ae \div 10, ae % 10>>)
                    ELSE Chars(<<ae \div 100, (ae \div 10) % 10, ae % 10>>))
    IN  IF n = 0 THEN sgn \o <<"0", ".", "0">>
        ELSE IF a.pt <= -4 \/ a.pt > 16
        THEN sgn \o <<d[1]>>
             \o (IF n > 1 THEN <<".">> \o SubSeq(d, 2, n) ELSE <<>>) \o expo
        ELSE IF a.pt <= 0 THEN sgn \o <<"0", ".">> \o CharZeros(-a.pt) \o d
        ELSE IF a.pt < n
        THEN sgn \o SubSeq(d, 1, a.pt) \o <<".">> \o SubSeq(d, a.pt + 1, n)
        ELSE sgn \o d \o CharZeros(a.pt - n) \o <<".", "0">>

\* s.lstrip(chars)
Lstrip(s, chars) ==
    LET keep == {i \in 1..Len(s) : s[i] \notin chars}
    IN  IF keep = {} THEN <<>>
        ELSE SubSeq(s, CHOOSE i \in keep : \A j \in keep : i <= j, Len(s))

\* int(str(float(amt)).lstrip('0.')[0]) raises IndexError on an empty
\* string and ValueError on a character that is no digit
FirstDigitRaises(a) ==
    LET s == Lstrip(FloatRepr(a), {"0", "."})
    IN  s = <<>> \/ \A k \in 1..10 : DigitChar[k] # s[1]

FirstDigit(a) ==
    LET s == Lstrip(FloatRepr(a), {"0", "."})
    IN  (CHOOSE k \in 1..10 : DigitChar[k] = s[1]) - 1

Trade(amount, side) == [amount |-> amount, side |-> side]

\* ------------------------------------------------------------------------
\* benford_law_test
\* ------------------------------------------------------------------------

\* log10(1 + 1/d) for d = 1..9, in units of 10^-5
BENFORD == <<30103, 17609, 12494, 9691, 7918, 6695, 5799, 5115, 4576>>

\* num / den in thousandths, rounded down (den below 2 * 10^8)
Thousandths(num, den) ==
    LET r0 == num % den
        r1 == (10 * r0) % den
        r2 == (10 * r1) % den
    IN  1000 * (num \div den) + 100 * ((10 * r0) \div den)
        + 10 * ((10 * r1) \div den) + (10 * r2) \div den

SumTo9(f) == f[1] + f[2] + f[3] + f[4] + f[5] + f[6] + f[7] + f[8] + f[9]

\* the statistic of stats.chisquare(observed_freq, expected_freq) with
\* expected_freq[d] = n * log10(1 + 1/d): sum (o - e)^2 / e, which is
\* sum o^2 / e - n as both frequencies sum to n; in thousandths, exact to
\* 0.02 for n up to 146 observations
ChiSquare(observed_freq, n) ==
    SumTo9([d \in 1..9 |->
              Thousandths(observed_freq[d] * observed_freq[d] * 100000,
                          n * BENFORD[d])]) - 1000 * n

\* the p-value of stats.chisquare for 9 categories: the survival function
\* of the chi-squared distribution with 8 degrees of freedom, rounded down
\* to the grid 0, 0.01, 0.05, 1 the program compares it with (the
\* quantiles are 15.507 for 0.05 and 20.090 for 0.01)
ChiSquareSf(chi) ==
    IF chi <= 0 THEN F1_0
    ELSE IF chi <= 15507 THEN F0_05
    ELSE IF chi <= 20090 THEN F0_01
    ELSE FZero

IsBenfordDigit(d) == 1 <= d /\ d <= 9

\* the filter written >= 0
PositiveAmounts_NonNegative(trades) ==
    LET NonNegative(a) == ~a.neg
    IN  SelectSeq([i \in 1..Len(trades) |-> trades[i].amount], NonNegative)

\* amounts = [float(t['amount']) for t in trades if float(t['amount']) > 0]
PositiveAmounts(trades) ==
    SelectSeq([i \in 1..Len(trades) |-> trades[i].amount], IsPositive)

\* the first_digits comprehension raises when int(...[0]) does
benford_raises(trades) ==
    \E i \in 1..Len(PositiveAmounts(trades)) :
        FirstDigitRaises(PositiveAmounts(trades)[i])

benford_law_test(trades) ==
    LET amounts      == PositiveAmounts(trades)
        first_digits == SelectSeq([i \in 1..Len(amounts) |->
                                     FirstDigit(amounts[i])], IsBenfordDigit)
        n            == Len(first_digits)
        observed_freq == [d \in 1..9 |->
            Cardinality({i \in 1..n : first_digits[i] = d})]
        chi_squared  == ChiSquare(observed_freq, n)
        p_value      == ChiSquareSf(chi_squared)
    IN  IF n = 0
        THEN [chi_squared |-> 0, p_value |-> F1_0,
              result |-> "INSUFFICIENT_DATA"]
        ELSE [chi_squared |-> chi_squared, p_value |-> p_value,
              result |-> IF FLess(p_value, F0_05) THEN "FAIL" ELSE "PASS"]

\* ------------------------------------------------------------------------
\* buy_sell_symmetry_test
\* ------------------------------------------------------------------------

buy_sell_symmetry_test(trades) ==
    LET buy_count  == Cardinality({i \in 1..Len(trades) :
                                     trades[i].side = "buy"})
        sell_count == Cardinality({i \in 1..Len(trades) :
                                     trades[i].side = "sell"})
        total      == buy_count + sell_count
        buy_pct    == FMul(FromRat(buy_count, total), FromInt(100))
        sell_pct   == FMul(FromRat(sell_count, total), FromInt(100))
    IN  IF total = 0
        THEN [buy_pct |-> FZero, sell_pct |-> FZero,
              result |-> "INSUFFICIENT_DATA"]
        ELSE [buy_pct |-> buy_pct, sell_pct |-> sell_pct,
              result |-> IF /\ FLeq(FromInt(45), buy_pct)
                            /\ FLeq(buy_pct, FromInt(55))
                            /\ FLeq(FromInt(45), sell_pct)
                            /\ FLeq(sell_pct, FromInt(55))
                         THEN "PASS" ELSE "FAIL"]

\* ------------------------------------------------------------------------
\* volume_depth_ratio_test.  The exchange is what its client answers:
\* [ticker_raises, ticker, book_raises, order_book].  ticker.quoteVolume is
\* [kind, val] with kind "num" (the float val), "none" (the key holds None)
\* or "missing" (no such key); order_book.bids and .asks are sequences of
\* <<price, size>> pairs of floats.
\* ------------------------------------------------------------------------

\* sum([level[1] * level[0] for level in levels]), added left to right from 0
Depth(levels) ==
    LET acc[i \in 0..Len(levels)] ==
            IF i = 0 THEN FZero
            ELSE FAdd(acc[i - 1], FMul(levels[i][2], levels[i][1]))
    IN  acc[Len(levels)]

VolumeOutcome(ratio, result) ==
    [ratio |-> ratio, benchmark |-> "3-5x", result |-> result]

\* a ratio of exactly 20 counted as a failure
ClassifyRatio_Strict(ratio) ==
    IF FLess(ratio, FromInt(3)) THEN "PASS"
    ELSE IF FLeq(FromInt(3), ratio) /\ FLeq(ratio, FromInt(10)) THEN "PASS"
    ELSE IF FLess(FromInt(10), ratio) /\ FLess(ratio, FromInt(20))
    THEN "WARNING"
    ELSE "FAIL"

\* the if / elif chain on the ratio
ClassifyRatio(ratio) ==
    IF FLess(ratio, FromInt(3)) THEN "PASS"
    ELSE IF FLeq(FromInt(3), ratio) /\ FLeq(ratio, FromInt(10)) THEN "PASS"
    ELSE IF FLess(FromInt(10), ratio) /\ FLeq(ratio, FromInt(20))
    THEN "WARNING"
    ELSE "FAIL"

volume_depth_ratio_test(exchange) ==
    IF exchange.ticker_raises THEN VolumeOutcome(FZero, "ERROR")
    ELSE IF exchange.ticker.quoteVolume.kind = "none"
    THEN VolumeOutcome(FZero, "ERROR")
    ELSE IF exchange.book_raises THEN VolumeOutcome(FZero, "ERROR")
    ELSE LET volume_24h  == IF exchange.ticker.quoteVolume.kind = "missing"
                            THEN FZero
                            ELSE exchange.ticker.quoteVolume.val
             bid_depth   == Depth(exchange.order_book.bids)
             ask_depth   == Depth(exchange.order_book.asks)
             total_depth == FAdd(bid_depth, ask_depth)
             ratio       == FDiv(volume_24h, total_depth)
         IN  IF IsZero(total_depth)
             THEN VolumeOutcome(FZero, "INSUFFICIENT_DATA")
             ELSE VolumeOutcome(ratio, ClassifyRatio(ratio))

\* ------------------------------------------------------------------------
\* The scorer, the label and the score correlation
\* ------------------------------------------------------------------------

\* the two weights of a failed Benford test swapped
BenfordScore_Swapped(score, benford) ==
    IF benford.result = "FAIL"
    THEN IF FLess(benford.p_value, F0_01) THEN FAdd(score, F0_3)
         ELSE FAdd(score, F0_5)
    ELSE score

\* score after the Benford block
BenfordScore(score, benford) ==
    IF benford.result = "FAIL"
    THEN IF FLess(benford.p_value, F0_01) THEN FAdd(score, F0_5)
         ELSE FAdd(score, F0_3)
    ELSE score

\* every result but PASS scored as a failure
SymmetryScore_NotPass(score, symmetry) ==
    IF symmetry.result # "PASS"
    THEN LET max_deviation ==
                 FMax(FAbs(FSub(symmetry.buy_pct, FromInt(50))),
                      FAbs(FSub(symmetry.sell_pct, FromInt(50))))
         IN  IF FLess(FromInt(15), max_deviation) THEN FAdd(score, F0_3)
             ELSE IF FLess(FromInt(10), max_deviation) THEN FAdd(score, F0_2)
             ELSE FAdd(score, F0_1)
    ELSE score

\* score after the symmetry block
SymmetryScore(score, symmetry) ==
    IF symmetry.result = "FAIL"
    THEN LET max_deviation ==
                 FMax(FAbs(FSub(symmetry.buy_pct, FromInt(50))),
                      FAbs(FSub(symmetry.sell_pct, FromInt(50))))
         IN  IF FLess(FromInt(15), max_deviation) THEN FAdd(score, F0_3)
             ELSE IF FLess(FromInt(10), max_deviation) THEN FAdd(score, F0_2)
             ELSE FAdd(score, F0_1)
    ELSE score

\* an ERROR outcome scored like a failure
VolumeScore_Error(score, volume_depth) ==
    IF volume_depth.result \in {"FAIL", "ERROR"} THEN FAdd(score, F0_2)
    ELSE IF volume_depth.result = "WARNING" THEN FAdd(score, F0_1)
    ELSE score

\* score after the volume/depth block
VolumeScore(score, volume_depth) ==
    IF volume_depth.result = "FAIL" THEN FAdd(score, F0_2)
    ELSE IF volume_depth.result = "WARNING" THEN FAdd(score, F0_1)
    ELSE score

calculate_manipulation_probability(benford, symmetry, volume_depth) ==
    FMin(VolumeScore(SymmetryScore(BenfordScore(FZero, benford), symmetry),
                     volume_depth),
         F1_0)

\* the thresholds compared with <=
get_manipulation_label_Inclusive(probability) ==
    IF FLeq(probability, F0_3) THEN "LOW"
    ELSE IF FLeq(probability, F0_6) THEN "MEDIUM"
    ELSE "HIGH"

get_manipulation_label(probability) ==
    IF FLess(probability, F0_3) THEN "LOW"
    ELSE IF FLess(probability, F0_6) THEN "MEDIUM"
    ELSE "HIGH"

\* the credibility not inverted
calculate_score_correlation_Direct(manipulation_prob, algohouse_score) ==
    IF ~algohouse_score.some THEN None
    ELSE Some(FMul(FromInt(-1),
                   FSub(manipulation_prob, algohouse_score.val)))

calculate_score_correlation(manipulation_prob, algohouse_score) ==
    IF ~algohouse_score.some THEN None
    ELSE Some(FMul(FromInt(-1),
                   FSub(manipulation_prob,
                        FSub(FromInt(1), algohouse_score.val))))

\* ------------------------------------------------------------------------
\* State: the locals of main() and what the run leaves behind
\* ------------------------------------------------------------------------

VARIABLES
    pc,                 \* the statement main() is at
    args,               \* the command line: [compare_algohouse]
    fetched,            \* fetch_trades: "pending", "ok" or "raised"
    exchange,           \* the answers of the exchange client (see above)
    trades,             \* the trade list
    benford,            \* the three test outcomes
    symmetry,
    volume_depth,
    manipulation_prob,  \* None until computed
    manipulation_label,
    algohouse_score,
    score_correlation,
    output,             \* the reports written to the output file
    exit_status,        \* -1 while running, then the process exit status
    evaluated,          \* which of the tests and the scorer ran, in order
    given,              \* the numbers the outcomes handed to the scorer
                        \* directly were made from, in decimal units
    at,                 \* fetch_trades: "idle", "loop", "returned", "exited"
    current_since,      \* fetch_trades: the cursor of the next request
    all_trades_len,     \* fetch_trades: len(all_trades), up to MaxTrades
    requested,          \* the cursors fetch_trades has sent a request for
    iteration           \* the parity of the iterations of the loop so far

vars == <<pc, args, fetched, exchange, trades, benford, symmetry,
          volume_depth, manipulation_prob, manipulation_label,
          algohouse_score, score_correlation, output, exit_status,
          evaluated, given, at, current_since, all_trades_len, requested,
          iteration>>

\* the locals of fetch_trades
fetch_vars == <<at, current_since, all_trades_len, requested, iteration>>

\* values of locals not assigned yet
NoBenford == [chi_squared |-> 0, p_value |-> FZero, result |-> "<unset>"]

NoSymmetry == [buy_pct |-> FZero, sell_pct |-> FZero, result |-> "<unset>"]

NoVolumeDepth == VolumeOutcome(FZero, "<unset>")

\* ------------------------------------------------------------------------
\* Inputs
\* ------------------------------------------------------------------------

\* n copies of x
Rep(x, n) == [i \in 1..n |-> x]

\* bounds of the generated inputs
MaxSide == 11

MaxOther == 1

MaxRep == 10

MaxMix == 1

MaxLevels == 2

One == Amount(FALSE, <<1>>, 1)

\* 0.0, -1.5, 0.00012, 1e-05, 2.5e-07, 1.0, 100.0, 3.0, 42.0, 0.05, 6.0,
\* 7e+16, 8.25, 0.9
Amounts ==
    {Amount(FALSE, <<>>, 0), Amount(TRUE, <<1, 5>>, 1),
     Amount(FALSE, <<1, 2>>, -3), Amount(FALSE, <<1>>, -4),
     Amount(FALSE, <<2, 5>>, -6), One, Amount(FALSE, <<1>>, 3),
     Amount(FALSE, <<3>>, 1), Amount(FALSE, <<4, 2>>, 2),
     Amount(FALSE, <<5>>, -1), Amount(FALSE, <<6>>, 1),
     Amount(FALSE, <<7>>, 17), Amount(FALSE, <<8, 2, 5>>, 1),
     Amount(FALSE, <<9>>, 0)}

MixAmounts ==
    {Amount(FALSE, <<>>, 0), Amount(TRUE, <<1, 5>>, 1), One,
     Amount(FALSE, <<9>>, 0)}

Volumes == {0, 299, 300, 1000, 1001, 2000, 2001, 4000, 4001, 25000}

Ticker(kind, v) == [quoteVolume |-> [kind |-> kind, val |-> FromInt(v)]]

Tickers ==
    {Ticker("none", 0), Ticker("missing", 0)}
    \cup {Ticker("num", v) : v \in Volumes}

Level(price, size) == <<price, size>>

Books ==
    {[bids |-> Rep(Level(FromInt(100), sb), nb),
      asks |-> Rep(Level(FromInt(100), FromInt(1)), na)] :
        sb \in {FZero, FromRat(1, 2), FromInt(1)},
        nb \in 0..MaxLevels, na \in 0..MaxLevels}

Exchange(ticker_raises, ticker, book_raises, order_book) ==
    [ticker_raises |-> ticker_raises, ticker |-> ticker,
     book_raises |-> book_raises, order_book |-> order_book]

EmptyBook == [bids |-> <<>>, asks |-> <<>>]

Exchanges ==
    {Exchange(TRUE, Ticker("missing", 0), FALSE, EmptyBook)}
    \cup {Exchange(FALSE, t, TRUE, EmptyBook) : t \in Tickers}
    \cup {Exchange(FALSE, t, FALSE, b) : t \in Tickers, b \in Books}

\* depth 1000, volume 25000
NominalExchange ==
    Exchange(FALSE, Ticker("num", 25000), FALSE,
             [bids |-> <<Level(FromInt(100), FromInt(5))>>,
              asks |-> <<Level(FromInt(100), FromInt(5))>>])

\* trade lists that differ in their sides
SideTrades ==
    {Rep(Trade(One, "buy"), nb) \o Rep(Trade(One, "sell"), ns)
     \o Rep(Trade(One, o), no) :
        nb \in 0..MaxSide, ns \in 0..MaxSide,
        o \in {"unknown", "<none>"}, no \in 0..MaxOther}

\* trade lists that differ in their amounts
AmountTrades ==
    {Rep(Trade(a1, "buy"), n1) \o Rep(Trade(a2, "sell"), n2) :
        a1 \in Amounts, n1 \in 0..MaxRep,
        a2 \in MixAmounts, n2 \in 0..MaxMix}

\* the limit handed to fetch_order_book
TOP_LEVELS == 20

\* how many levels more than the limit an exchange answers with
MaxBeyond == 1

\* exchanges whose order book is as long as the limit, or longer (the limit
\* is a request: the client returns the levels the exchange sent)
DeepExchanges ==
    {Exchange(FALSE, Ticker("num", v), FALSE,
              [bids |-> Rep(Level(FromInt(100), FromRat(1, 2)), nb),
               asks |-> Rep(Level(FromInt(100), FromInt(1)), na)]) :
        v \in {20500, 25000},
        nb \in TOP_LEVELS..(TOP_LEVELS + MaxBeyond),
        na \in {0, 1, TOP_LEVELS + MaxBeyond}}

\* the tests share no state: their inputs vary one at a time
TestInputs ==
    {[trades |-> t, exchange |-> NominalExchange] :
        t \in SideTrades \cup AmountTrades}
    \cup {[trades |-> <<>>, exchange |-> e] :
             e \in Exchanges \cup DeepExchanges}

\* ------------------------------------------------------------------------
\* The steps of main() from the tests on (lines 358-369)
\* ------------------------------------------------------------------------

\* benford = benford_law_test(trades); an exception ends the run
RunBenford ==
    /\ pc = "benford"
    /\ IF benford_raises(trades)
       THEN /\ pc' = "crashed"
            /\ exit_status' = 1
            /\ UNCHANGED <<benford, evaluated>>
       ELSE /\ benford' = benford_law_test(trades)
            /\ pc' = "symmetry"
            /\ evaluated' = Append(evaluated, "benford")
            /\ UNCHANGED exit_status
    /\ UNCHANGED <<args, fetched, exchange, trades, symmetry, volume_depth,
                   manipulation_prob, manipulation_label, algohouse_score,
                   score_correlation, output, given>>
    /\ UNCHANGED fetch_vars

RunSymmetry ==
    /\ pc = "symmetry"
    /\ symmetry' = buy_sell_symmetry_test(trades)
    /\ pc' = "volume_depth"
    /\ evaluated' = Append(evaluated, "symmetry")
    /\ UNCHANGED <<args, fetched, exchange, trades, benford, volume_depth,
                   manipulation_prob, manipulation_label, algohouse_score,
                   score_correlation, output, exit_status, given>>
    /\ UNCHANGED fetch_vars

RunVolumeDepth ==
    /\ pc = "volume_depth"
    /\ volume_depth' = volume_depth_ratio_test(exchange)
    /\ pc' = "score"
    /\ evaluated' = Append(evaluated, "volume_depth")
    /\ UNCHANGED <<args, fetched, exchange, trades, benford, symmetry,
                   manipulation_prob, manipulation_label, algohouse_score,
                   score_correlation, output, exit_status, given>>
    /\ UNCHANGED fetch_vars

Score ==
    /\ pc = "score"
    /\ manipulation_prob' =
           Some(calculate_manipulation_probability(benford, symmetry,
                                                   volume_depth))
    /\ pc' = "label"
    /\ evaluated' = Append(evaluated, "scorer")
    /\ UNCHANGED <<args, fetched, exchange, trades, benford, symmetry,
                   volume_depth, manipulation_label, algohouse_score,
                   score_correlation, output, exit_status, given>>
    /\ UNCHANGED fetch_vars

Label ==
    /\ pc = "label"
    /\ manipulation_label' = get_manipulation_label(manipulation_prob.val)
    /\ pc' = "compare"
    /\ UNCHANGED <<args, fetched, exchange, trades, benford, symmetry,
                   volume_depth, manipulation_prob, algohouse_score,
                   score_correlation, output, exit_status, evaluated, given>>
    /\ UNCHANGED fetch_vars

\* ------------------------------------------------------------------------
\* The three tests, the scorer and the label applied to generated inputs
\* ------------------------------------------------------------------------

NoGiven == [p_value |-> 0, buy_pct |-> 0, sell_pct |-> 0, score |-> -1]

InitTests ==
    /\ pc = "benford"
    /\ args = [compare_algohouse |-> FALSE]
    /\ fetched = "ok"
    /\ given = NoGiven
    /\ at = "idle"
    /\ current_since = 0
    /\ all_trades_len = 0
    /\ requested = {}
    /\ iteration = 0
    /\ \E in \in TestInputs : trades = in.trades /\ exchange = in.exchange
    /\ benford = NoBenford
    /\ symmetry = NoSymmetry
    /\ volume_depth = NoVolumeDepth
    /\ manipulation_prob = None
    /\ manipulation_label = "<unset>"
    /\ algohouse_score = None
    /\ score_correlation = None
    /\ output = <<>>
    /\ exit_status = -1
    /\ evaluated = <<>>

NextTests == RunBenford \/ RunSymmetry \/ RunVolumeDepth \/ Score \/ Label

SpecTests == InitTests /\ [][NextTests]_vars

\* ------------------------------------------------------------------------
\* The rest of main(): acquisition (lines 348-353), the comparison with
\* the external score (373-385) and the report (387-405)
\* ------------------------------------------------------------------------

\* the minimum sample size main() demands
MIN_TRADES == 100

\* how far the generated trade lists exceed the minimum
MaxExtra == 1

Zero == Amount(FALSE, <<>>, 0)

\* n trades of amount a, the first nb buys, the others sells
Feed(n, nb, a) ==
    [i \in 1..n |-> Trade(a, IF i <= nb THEN "buy" ELSE "sell")]

\* MIN_TRADES trades whose leading digits follow Benford's law, sides
\* alternating
BenfordFeed ==
    LET upto == <<30, 48, 60, 70, 78, 85, 91, 96, 100>>
        digit(i) == CHOOSE d \in 1..9 :
                        i <= upto[d] /\ (d = 1 \/ i > upto[d - 1])
    IN  [i \in 1..MIN_TRADES |->
            Trade(Amount(FALSE, <<digit(i)>>, 1),
                  IF i % 2 = 1 THEN "buy" ELSE "sell")]

\* what fetch_trades can return
Feeds ==
    {Feed(n, nb, a) :
        n \in {0, MIN_TRADES - 1, MIN_TRADES, MIN_TRADES + MaxExtra},
        nb \in {0, 50, 55, 70}, a \in {One, Zero}}
    \cup {BenfordFeed}

\* what fetch_algohouse_score can return: None (request failed, exchange
\* not listed) or a credibility in [0, 1], here in hundredths
Credibilities == {0, 35, 50, 100}

AlgoScores == {None} \cup {Some(FromRat(j, 100)) : j \in Credibilities}

MainExchanges ==
    {NominalExchange,
     Exchange(TRUE, Ticker("missing", 0), FALSE, EmptyBook),
     Exchange(FALSE, Ticker("num", 2000), TRUE, EmptyBook),
     Exchange(FALSE, Ticker("num", 2000), FALSE, EmptyBook),
     Exchange(FALSE, Ticker("num", 2000), FALSE,
              [bids |-> <<Level(FromInt(100), FromInt(1))>>, asks |-> <<>>])}

\* the exception swallowed and an empty list returned
FetchTrades_Swallow ==
    /\ pc = "fetch"
    /\ \/ /\ fetched' = "raised"
          /\ pc' = "check"
          /\ UNCHANGED <<trades, exit_status>>
       \/ /\ \E all_trades \in Feeds : trades' = all_trades
          /\ fetched' = "ok"
          /\ pc' = "check"
          /\ UNCHANGED exit_status
    /\ UNCHANGED <<args, exchange, benford, symmetry, volume_depth,
                   manipulation_prob, manipulation_label, algohouse_score,
                   score_correlation, output, evaluated, given>>
    /\ UNCHANGED fetch_vars

\* trades = fetch_trades(...): the pages the exchange answers are put
\* together and returned, or an exception inside is caught, printed and
\* answered with sys.exit(1)
FetchTrades ==
    /\ pc = "fetch"
    /\ \/ /\ fetched' = "raised"
          /\ pc' = "exited"
          /\ exit_status' = 1
          /\ UNCHANGED trades
       \/ /\ \E all_trades \in Feeds : trades' = all_trades
          /\ fetched' = "ok"
          /\ pc' = "check"
          /\ UNCHANGED exit_status
    /\ UNCHANGED <<args, exchange, benford, symmetry, volume_depth,
                   manipulation_prob, manipulation_label, algohouse_score,
                   score_correlation, output, evaluated, given>>
    /\ UNCHANGED fetch_vars

\* the minimum off by one
CheckTrades_Lenient ==
    /\ pc = "check"
    /\ IF Len(trades) < MIN_TRADES - 1
       THEN pc' = "exited" /\ exit_status' = 1
       ELSE pc' = "benford" /\ UNCHANGED exit_status
    /\ UNCHANGED <<args, fetched, exchange, trades, benford, symmetry,
                   volume_depth, manipulation_prob, manipulation_label,
                   algohouse_score, score_correlation, output, evaluated,
                   given>>
    /\ UNCHANGED fetch_vars

\* if len(trades) < 100: ... sys.exit(1)
CheckTrades ==
    /\ pc = "check"
    /\ IF Len(trades) < MIN_TRADES
       THEN pc' = "exited" /\ exit_status' = 1
       ELSE pc' = "benford" /\ UNCHANGED exit_status
    /\ UNCHANGED <<args, fetched, exchange, trades, benford, symmetry,
                   volume_depth, manipulation_prob, manipulation_label,
                   algohouse_score, score_correlation, output, evaluated,
                   given>>
    /\ UNCHANGED fetch_vars

\* Step 4 of main(): the correlation is computed only when the comparison
\* was asked for and a score came back
Compare ==
    /\ pc = "compare"
    /\ IF args.compare_algohouse
       THEN \E score \in AlgoScores :
                /\ algohouse_score' = score
                /\ score_correlation' =
                       IF score.some
                       THEN calculate_score_correlation(
                                manipulation_prob.val, score)
                       ELSE None
       ELSE algohouse_score' = None /\ score_correlation' = None
    /\ pc' = "report"
    /\ UNCHANGED <<args, fetched, exchange, trades, benford, symmetry,
                   volume_depth, manipulation_prob, manipulation_label,
                   output, exit_status, evaluated, given>>
    /\ UNCHANGED fetch_vars

\* calculate_score_correlation called with any score, absent (j = -1) or
\* present (j hundredths)
CallCorrelation ==
    /\ pc = "compare"
    /\ \E j \in Credibilities \cup {-1} :
           LET score == IF j < 0 THEN None ELSE Some(FromRat(j, 100))
           IN  /\ algohouse_score' = score
               /\ score_correlation' =
                      calculate_score_correlation(manipulation_prob.val,
                                                  score)
               /\ given' = [given EXCEPT !.score = j]
    /\ pc' = "report"
    /\ UNCHANGED <<args, fetched, exchange, trades, benford, symmetry,
                   volume_depth, manipulation_prob, manipulation_label,
                   output, exit_status, evaluated>>
    /\ UNCHANGED fetch_vars

\* Steps 5 and 6: the report is built from the locals and written; opening
\* or writing the file may raise, which ends the run without a report
Report ==
    [total_trades_analyzed |-> Len(trades),
     benfords_law |-> benford,
     buy_sell_symmetry |-> symmetry,
     volume_depth_ratio |-> volume_depth,
     manipulation_probability |-> manipulation_prob.val,
     manipulation_label |-> manipulation_label,
     algohouse_quality_score |-> algohouse_score,
     score_correlation |-> score_correlation]

WriteReport ==
    /\ pc = "report"
    /\ \/ /\ output' = Append(output, Report)
          /\ pc' = "done"
          /\ exit_status' = 0
       \/ /\ pc' = "crashed"
          /\ exit_status' = 1
          /\ UNCHANGED output
    /\ UNCHANGED <<args, fetched, exchange, trades, benford, symmetry,
                   volume_depth, manipulation_prob, manipulation_label,
                   algohouse_score, score_correlation, evaluated, given>>
    /\ UNCHANGED fetch_vars

\* ------------------------------------------------------------------------
\* A run of main()
\* ------------------------------------------------------------------------

Init ==
    /\ pc = "fetch"
    /\ args \in {[compare_algohouse |-> c] : c \in BOOLEAN}
    /\ fetched = "pending"
    /\ exchange \in MainExchanges
    /\ trades = <<>>
    /\ benford = NoBenford
    /\ symmetry = NoSymmetry
    /\ volume_depth = NoVolumeDepth
    /\ manipulation_prob = None
    /\ manipulation_label = "<unset>"
    /\ algohouse_score = None
    /\ score_correlation = None
    /\ output = <<>>
    /\ exit_status = -1
    /\ evaluated = <<>>
    /\ given = NoGiven
    /\ at = "idle"
    /\ current_since = 0
    /\ all_trades_len = 0
    /\ requested = {}
    /\ iteration = 0

Next ==
    \/ FetchTrades
    \/ CheckTrades
    \/ RunBenford
    \/ RunSymmetry
    \/ RunVolumeDepth
    \/ Score
    \/ Label
    \/ Compare
    \/ WriteReport

Spec == Init /\ [][Next]_vars

\* ------------------------------------------------------------------------
\* The scorer, the label and the correlation applied to outcomes of any
\* content: every result of every test's enum, with any other fields
\* ------------------------------------------------------------------------

\* p-values in thousandths
PValues == {5, 10}

\* <<buy_pct, sell_pct>> in tenths of a percent
Percentages ==
    {<<349, 651>>, <<350, 650>>, <<399, 500>>, <<400, 600>>, <<500, 651>>,
     <<450, 550>>}

Results == {"PASS", "FAIL", "INSUFFICIENT_DATA", "ERROR"}

InitScorer ==
    /\ pc = "score"
    /\ args = [compare_algohouse |-> TRUE]
    /\ fetched = "ok"
    /\ exchange = NominalExchange
    /\ trades = <<>>
    /\ \E p \in PValues, pct \in Percentages :
          /\ given = [p_value |-> p, buy_pct |-> pct[1], sell_pct |-> pct[2],
                      score |-> -1]
          /\ \E r \in Results :
                benford = [chi_squared |-> 0, p_value |-> FromRat(p, 1000),
                           result |-> r]
          /\ \E r \in Results :
                symmetry = [buy_pct |-> FromRat(pct[1], 10),
                            sell_pct |-> FromRat(pct[2], 10), result |-> r]
    /\ \E r \in Results \cup {"WARNING"} :
          volume_depth = VolumeOutcome(FromInt(25), r)
    /\ manipulation_prob = None
    /\ manipulation_label = "<unset>"
    /\ algohouse_score = None
    /\ score_correlation = None
    /\ output = <<>>
    /\ exit_status = -1
    /\ evaluated = <<>>
    /\ at = "idle"
    /\ current_since = 0
    /\ all_trades_len = 0
    /\ requested = {}
    /\ iteration = 0

NextScorer == Score \/ Label \/ CallCorrelation \/ WriteReport

SpecScorer == InitScorer /\ [][NextScorer]_vars

\* ------------------------------------------------------------------------
\* Properties of the scorer, the label and the correlation (SpecScorer)
\* ------------------------------------------------------------------------

\* the rational a / t as a float, of either sign
FRat(a, t) == IF a < 0 THEN FNeg(FromRat(-a, t)) ELSE FromRat(a, t)

\* the contributions in exact tenths, from the inputs as they were given
ExactDigit ==
    IF benford.result = "FAIL"
    THEN IF given.p_value < 10 THEN 5 ELSE 3
    ELSE 0

ExactDeviation ==
    LET b == IF given.buy_pct >= 500 THEN given.buy_pct - 500
             ELSE 500 - given.buy_pct
        s == IF given.sell_pct >= 500 THEN given.sell_pct - 500
             ELSE 500 - given.sell_pct
    IN  Max(b, s)

ExactSymmetry ==
    IF symmetry.result = "FAIL"
    THEN IF ExactDeviation > 150 THEN 3
         ELSE IF ExactDeviation > 100 THEN 2
         ELSE 1
    ELSE 0

ExactVolume ==
    IF volume_depth.result = "FAIL" THEN 2
    ELSE IF volume_depth.result = "WARNING" THEN 1
    ELSE 0

ExactScore == Min(10, ExactDigit + ExactSymmetry + ExactVolume)

\* the midpoints between neighbouring tenths: a float x is the tenth k, up
\* to the rounding of the additions, when TenthBelow[k] < x < TenthAbove[k]
TenthBelow == [k \in 0..10 |-> FRat(2 * k - 1, 20)]
TenthAbove == [k \in 0..10 |-> FRat(2 * k + 1, 20)]

IsTenth(x, k) == FLess(TenthBelow[k], x) /\ FLess(x, TenthAbove[k])

\* C1: the probability the scorer returns is min(1.0, c_digit + c_sym +
\* c_vol), each contribution decided by its own outcome alone: 0.5 or 0.3
\* for a failed digit test by its p-value against 0.01, 0.3 / 0.2 / 0.1 for
\* a failed symmetry test by the larger deviation from 50 against 15 and
\* 10, 0.2 / 0.1 for a failed / warned volume test, and nothing for PASS,
\* INSUFFICIENT_DATA and ERROR whatever their other fields hold; it lies in
\* [0, 1].  The sum is the float sum, equal to the decimal one up to the
\* rounding of the additions.
C1_ScoreIsCappedSum ==
    manipulation_prob.some =>
        /\ IsTenth(manipulation_prob.val, ExactScore)
        /\ FLeq(FZero, manipulation_prob.val)
        /\ FLeq(manipulation_prob.val, F1_0)
        /\ ExactScore = 0 => manipulation_prob.val = FZero
        /\ ExactScore = 10 => manipulation_prob.val = F1_0

\* an INSUFFICIENT_DATA symmetry outcome whose percentages deviate by more
\* than 15, a PASS digit outcome with p < 0.01 and an ERROR volume outcome
\* were scored 0
C1_Witness ==
    /\ manipulation_prob.some
    /\ manipulation_prob.val = FZero
    /\ symmetry.result = "INSUFFICIENT_DATA"
    /\ ExactDeviation > 150
    /\ benford.result = "PASS"
    /\ given.p_value < 10
    /\ volume_depth.result = "ERROR"

\* C2: the label is LOW exactly when the probability is below 0.3, MEDIUM
\* exactly when it is at least 0.3 and below 0.6, HIGH exactly when it is
\* at least 0.6; a probability of 0.3 is MEDIUM and one of 0.6 is HIGH.
C2_LabelThresholds ==
    manipulation_label # "<unset>" =>
        /\ manipulation_label = "LOW" <=> FLess(manipulation_prob.val, F0_3)
        /\ manipulation_label = "MEDIUM" <=>
               /\ FLeq(F0_3, manipulation_prob.val)
               /\ FLess(manipulation_prob.val, F0_6)
        /\ manipulation_label = "HIGH" <=> FLeq(F0_6, manipulation_prob.val)
        /\ manipulation_label = "LOW" <=> ExactScore < 3
        /\ manipulation_label = "MEDIUM" <=> ExactScore >= 3 /\ ExactScore < 6
        /\ manipulation_label = "HIGH" <=> ExactScore >= 6

\* a probability of exactly 0.3, from the digit test alone, was labelled
\* MEDIUM
C2_Witness ==
    /\ manipulation_label = "MEDIUM"
    /\ manipulation_prob.val = F0_3
    /\ ExactDigit = 3

\* the midpoints between neighbouring hundredths
HundredthBelow == [n \in -100..100 |-> FRat(2 * n - 1, 200)]
HundredthAbove == [n \in -100..100 |-> FRat(2 * n + 1, 200)]

IsHundredth(x, n) == FLess(HundredthBelow[n], x) /\ FLess(x, HundredthAbove[n])

\* the correlation has been computed
Correlated == pc \in {"report", "done", "crashed"}

\* C10: calculate_score_correlation returns None when the external score
\* is absent; otherwise it returns -1 * (p - (1 - c)) for probability p and
\* credibility c, a value in [-1, 1] (up to the rounding of the two
\* subtractions), and computing it changes neither the probability nor the
\* label, which go into the report as the scorer and the labeller left
\* them.
C10_Correlation ==
    /\ [](Correlated =>
            /\ given.score < 0 => score_correlation = None
            /\ given.score >= 0 =>
                  /\ score_correlation.some
                  /\ IsHundredth(score_correlation.val,
                                 100 - given.score - 10 * ExactScore)
                  /\ FLeq(FromInt(-1), score_correlation.val)
                  /\ FLeq(score_correlation.val, FromInt(1)))
    /\ [](output # <<>> =>
            /\ output[1].manipulation_probability = manipulation_prob.val
            /\ output[1].manipulation_label = manipulation_label
            /\ output[1].score_correlation = score_correlation)
    /\ [][pc = "compare" =>
            /\ manipulation_prob' = manipulation_prob
            /\ manipulation_label' = manipulation_label]_vars

\* a HIGH probability of 0.8 met a credibility of 0.35: the correlation,
\* -0.15, was reported
C10_Witness ==
    /\ pc = "done"
    /\ given.score = 35
    /\ ExactScore = 8
    /\ score_correlation.some
    /\ IsHundredth(score_correlation.val, -15)
    /\ output[1].manipulation_label = "HIGH"

\* ------------------------------------------------------------------------
\* Properties of the three tests (SpecTests)
\* ------------------------------------------------------------------------

Buys == Cardinality({i \in 1..Len(trades) : trades[i].side = "buy"})

Sells == Cardinality({i \in 1..Len(trades) : trades[i].side = "sell"})

\* the float x is num / den to within 1 / (100 * den)
IsRatio(x, num, den) ==
    /\ FLess(FRat(100 * num - 1, 100 * den), x)
    /\ FLess(x, FRat(100 * num + 1, 100 * den))

\* C3: with at least one buy or sell, buy_sell_symmetry_test counts only
\* the buys and the sells, reports buy_pct = 100 * buys / (buys + sells)
\* and sell_pct = 100 - buy_pct, and returns FAIL exactly when one of the
\* two lies outside the closed range [45, 55], PASS otherwise: 45 and 55
\* exactly are PASS.
C3_SymmetryVerdict ==
    (symmetry.result # "<unset>" /\ Buys + Sells > 0) =>
        /\ IsRatio(symmetry.buy_pct, 100 * Buys, Buys + Sells)
        /\ IsRatio(symmetry.sell_pct, 100 * Sells, Buys + Sells)
        /\ symmetry.result \in {"PASS", "FAIL"}
        /\ symmetry.result = "FAIL" <=>
               \/ 100 * Buys < 45 * (Buys + Sells)
               \/ 100 * Buys > 55 * (Buys + Sells)
               \/ 100 * Sells < 45 * (Buys + Sells)
               \/ 100 * Sells > 55 * (Buys + Sells)

\* twice the value of a float that is a multiple of 1/2, as an integer
Twice(x) ==
    IF IsZero(x) THEN 0
    ELSE LET o == OddPart(x)
             pow[i \in 0..(o.exp + 1)] == IF i = 0 THEN 1 ELSE 2 * pow[i - 1]
         IN  o.num * pow[o.exp + 1]

\* twice the 24h volume and twice the total depth of the exchange, exactly
Volume2 ==
    IF exchange.ticker.quoteVolume.kind = "missing" THEN 0
    ELSE Twice(exchange.ticker.quoteVolume.val)

LevelsDepth2(levels) ==
    LET acc[i \in 0..Len(levels)] ==
            IF i = 0 THEN 0
            ELSE acc[i - 1]
                 + (Twice(levels[i][1]) \div 2) * Twice(levels[i][2])
    IN  acc[Len(levels)]

Depth2 ==
    LevelsDepth2(exchange.order_book.bids)
    + LevelsDepth2(exchange.order_book.asks)

\* the ticker and the order book were obtained
Obtained ==
    /\ ~exchange.ticker_raises
    /\ ~exchange.book_raises
    /\ exchange.ticker.quoteVolume.kind # "none"

\* C4: for every volume and every total depth other than 0, the verdict on
\* ratio = volume_24h / total_depth is PASS when ratio <= 10, WARNING when
\* 10 < ratio <= 20 and FAIL when ratio > 20: one verdict for every ratio,
\* 10 and 20 belonging to the lower band.
C4_VolumeBands ==
    (volume_depth.result # "<unset>" /\ Obtained /\ Depth2 # 0) =>
        /\ volume_depth.ratio = FRat(Volume2, Depth2)
        /\ volume_depth.result =
               IF Volume2 <= 10 * Depth2 THEN "PASS"
               ELSE IF Volume2 <= 20 * Depth2 THEN "WARNING"
               ELSE "FAIL"

\* a ratio of exactly 20 was given a WARNING
C4_Witness ==
    /\ volume_depth.result = "WARNING"
    /\ Obtained
    /\ Depth2 # 0
    /\ Volume2 = 20 * Depth2
    /\ volume_depth.ratio = FromInt(20)

\* the trades with a strictly positive amount; the leading digit of such
\* an amount is the first of its digits, one of 1..9
ValidTrades == {i \in 1..Len(trades) : IsPositive(trades[i].amount)}

ValidDigits == {trades[i].amount.digits[1] : i \in ValidTrades}

\* C5: each test returns INSUFFICIENT_DATA, raising no fault, on an input
\* that is valid but empty or degenerate: the digit test when no trade has
\* a strictly positive amount (then with p_value 1.0 and statistic 0), the
\* symmetry test when buys + sells is 0, the volume/depth test when the
\* total depth is 0, whatever the volume.
C5_InsufficientData ==
    /\ ValidTrades = {} =>
          /\ pc # "crashed"
          /\ Len(evaluated) >= 1 =>
                benford = [chi_squared |-> 0, p_value |-> F1_0,
                           result |-> "INSUFFICIENT_DATA"]
    /\ (Buys + Sells = 0 /\ Len(evaluated) >= 2) =>
          symmetry.result = "INSUFFICIENT_DATA"
    /\ (Obtained /\ Depth2 = 0 /\ Len(evaluated) >= 3) =>
          volume_depth.result = "INSUFFICIENT_DATA"

\* no trades, and an order book without depth under a volume of 25000: the
\* three tests ran and each returned INSUFFICIENT_DATA
C5_Witness ==
    /\ Len(evaluated) >= 3
    /\ trades = <<>>
    /\ Obtained
    /\ Depth2 = 0
    /\ Volume2 = 50000
    /\ benford.result = "INSUFFICIENT_DATA"
    /\ symmetry.result = "INSUFFICIENT_DATA"
    /\ volume_depth.result = "INSUFFICIENT_DATA"

\* the digit test ran on valid sizes that all share one leading digit
AllSameDigit == Len(evaluated) >= 1 /\ Cardinality(ValidDigits) = 1

\* C6: whenever all valid sizes share one leading digit (any digit, any
\* number n >= 1 of them), benford_law_test returns FAIL with a p-value
\* below 0.01 and the scorer attributes exactly 0.5 to the digit component.
C6_AllSameDigitAnyN ==
    AllSameDigit =>
        /\ benford.result = "FAIL"
        /\ FLess(benford.p_value, F0_01)
        /\ BenfordScore(FZero, benford) = F0_5

\* C6, as the code has it: the statistic of n sizes that all lead with the
\* digit d is n * (1 - p_d) / p_d, which is above the 0.01 critical value
\* for every digit once there are at least 9 sizes; then the test returns
\* FAIL with a p-value below 0.01 and the scorer attributes exactly 0.5.
C6_AllSameDigit ==
    (AllSameDigit /\ Cardinality(ValidTrades) >= 9) =>
        /\ benford.result = "FAIL"
        /\ FLess(benford.p_value, F0_01)
        /\ BenfordScore(FZero, benford) = F0_5

\* nine or more sizes, all leading with the digit 1, failed the digit test
\* and the scorer ran on that outcome
C6_Witness ==
    /\ AllSameDigit
    /\ Cardinality(ValidTrades) >= 9
    /\ ValidDigits = {1}
    /\ benford.result = "FAIL"
    /\ manipulation_prob.some
    /\ FLeq(F0_5, manipulation_prob.val)

\* ------------------------------------------------------------------------
\* Properties of a run of main() (Spec)
\* ------------------------------------------------------------------------

\* obtaining the ticker or the order book fails
AcquisitionFails == exchange.ticker_raises \/ exchange.book_raises

\* C7: when obtaining the ticker or the order book fails, the volume/depth
\* test returns result ERROR with ratio 0 and propagates no fault; the run
\* goes on to the scorer, which receives that outcome and adds nothing to
\* the probability for it.
C7_AcquisitionError ==
    (AcquisitionFails /\ Len(evaluated) >= 3) =>
        /\ volume_depth = VolumeOutcome(FZero, "ERROR")
        /\ Len(evaluated) = 3 => pc = "score"
        /\ Len(evaluated) = 4 =>
              /\ evaluated[4] = "scorer"
              /\ manipulation_prob.some
              /\ manipulation_prob.val =
                     FMin(SymmetryScore(BenfordScore(FZero, benford),
                                        symmetry), F1_0)
        /\ output # <<>> => output[1].volume_depth_ratio = volume_depth

\* the order book could not be obtained and the run ended with a report
\* that holds the ERROR outcome
C7_Witness ==
    /\ exchange.book_raises
    /\ pc = "done"
    /\ exit_status = 0
    /\ output[1].volume_depth_ratio = VolumeOutcome(FZero, "ERROR")
    /\ manipulation_prob.some

\* the scorer got one outcome of each test, each within its test's results
OutcomesComplete ==
    /\ evaluated = <<"benford", "symmetry", "volume_depth", "scorer">>
    /\ benford.result \in {"PASS", "FAIL", "INSUFFICIENT_DATA"}
    /\ symmetry.result \in {"PASS", "FAIL", "INSUFFICIENT_DATA"}
    /\ volume_depth.result \in
           {"PASS", "WARNING", "FAIL", "INSUFFICIENT_DATA", "ERROR"}

C9_MinimumTrades ==
    /\ (fetched = "ok" /\ pc # "check" /\ Len(trades) < MIN_TRADES) =>
          /\ pc = "exited"
          /\ exit_status = 1
          /\ evaluated = <<>>
          /\ output = <<>>
          /\ benford = NoBenford
          /\ symmetry = NoSymmetry
          /\ volume_depth = NoVolumeDepth
          /\ ~manipulation_prob.some
    /\ output # <<>> =>
          /\ fetched = "ok"
          /\ Len(trades) >= MIN_TRADES
          /\ output[1].total_trades_analyzed = Len(trades)
          /\ evaluated = <<"benford", "symmetry", "volume_depth", "scorer">>

\* exactly 100 trades were acquired and the report was written
C9_Witness ==
    /\ Len(trades) = MIN_TRADES
    /\ pc = "done"
    /\ Len(output) = 1
    /\ evaluated = <<"benford", "symmetry", "volume_depth", "scorer">>

\* ------------------------------------------------------------------------
\* The levels of the order book that count (SpecTests)
\* ------------------------------------------------------------------------

\* the first TOP_LEVELS levels of one side
Top(levels) == SubSeq(levels, 1, Min(TOP_LEVELS, Len(levels)))

\* twice the depth of the top levels of both sides, exactly
TopDepth2 ==
    LevelsDepth2(Top(exchange.order_book.bids))
    + LevelsDepth2(Top(exchange.order_book.asks))

\* C11: total_depth is computed from at most the top 20 bid levels and the
\* top 20 ask levels: levels beyond the 20th of either side change neither
\* total_depth nor the ratio nor the result, even when more than 20 levels
\* per side are returned; the outcome is the one of the top levels alone.
C11_TopTwentyLevels ==
    (volume_depth.result # "<unset>" /\ Obtained) =>
        IF TopDepth2 = 0
        THEN volume_depth = VolumeOutcome(FZero, "INSUFFICIENT_DATA")
        ELSE /\ volume_depth.ratio = FRat(Volume2, TopDepth2)
             /\ volume_depth.result =
                    IF Volume2 <= 10 * TopDepth2 THEN "PASS"
                    ELSE IF Volume2 <= 20 * TopDepth2 THEN "WARNING"
                    ELSE "FAIL"

\* ------------------------------------------------------------------------
\* The pagination loop of fetch_trades (lines 52-70), one iteration a step.
\* Times are milliseconds on a short scale; a response is known by the
\* number of its trades and the timestamp of its last trade, which are all
\* the loop reads of it.
\* ------------------------------------------------------------------------

\* limit=1000 of exchange.fetch_trades
PAGE_LIMIT == 1000

\* the length of the period asked for
MaxSpan == 3

\* len(all_trades) is counted up to here
MaxTrades == 3000

\* since, the start of the period, and the end_time the loop compares with
Since == 1

EndTime == Since + MaxSpan

\* the timestamps a trade of a response may carry: before the period, in
\* it, or after it
Timestamps == 0..(EndTime + 1)

\* the non-empty responses
Pages ==
    [len : {1, PAGE_LIMIT - 1, PAGE_LIMIT}, last : Timestamps]

\* while current_since < end: a page with trades is added, the cursor moves
\* to one past its last timestamp, and a page below the limit ends the loop
FetchPage ==
    /\ at = "loop"
    /\ current_since < EndTime
    /\ \E page \in Pages :
           /\ all_trades_len' = Min(all_trades_len + page.len, MaxTrades)
           /\ current_since' = page.last + 1
           /\ IF page.len < PAGE_LIMIT
              THEN at' = "returned" /\ fetched' = "ok"
              ELSE at' = "loop" /\ UNCHANGED fetched
    /\ requested' = requested \cup {current_since}
    /\ iteration' = 1 - iteration
    /\ UNCHANGED <<pc, args, exchange, trades, benford, symmetry,
                   volume_depth, manipulation_prob, manipulation_label,
                   algohouse_score, score_correlation, output, exit_status,
                   evaluated, given>>

\* if not trades: break
FetchEmptyPage ==
    /\ at = "loop"
    /\ current_since < EndTime
    /\ at' = "returned"
    /\ fetched' = "ok"
    /\ requested' = requested \cup {current_since}
    /\ iteration' = 1 - iteration
    /\ UNCHANGED <<pc, args, exchange, trades, benford, symmetry,
                   volume_depth, manipulation_prob, manipulation_label,
                   algohouse_score, score_correlation, output, exit_status,
                   evaluated, given, current_since, all_trades_len>>

\* the request raises: except Exception ... sys.exit(1)
FetchPageRaises ==
    /\ at = "loop"
    /\ current_since < EndTime
    /\ at' = "exited"
    /\ fetched' = "raised"
    /\ pc' = "exited"
    /\ exit_status' = 1
    /\ requested' = requested \cup {current_since}
    /\ iteration' = 1 - iteration
    /\ UNCHANGED <<args, exchange, trades, benford, symmetry, volume_depth,
                   manipulation_prob, manipulation_label, algohouse_score,
                   score_correlation, output, evaluated, given,
                   current_since, all_trades_len>>

\* the loop condition fails: return all_trades
LoopEnd ==
    /\ at = "loop"
    /\ current_since >= EndTime
    /\ at' = "returned"
    /\ fetched' = "ok"
    /\ UNCHANGED <<pc, args, exchange, trades, benford, symmetry,
                   volume_depth, manipulation_prob, manipulation_label,
                   algohouse_score, score_correlation, output, exit_status,
                   evaluated, given, current_since, all_trades_len,
                   requested, iteration>>

InitFetch ==
    /\ pc = "fetch"
    /\ args = [compare_algohouse |-> FALSE]
    /\ fetched = "pending"
    /\ exchange = NominalExchange
    /\ trades = <<>>
    /\ benford = NoBenford
    /\ symmetry = NoSymmetry
    /\ volume_depth = NoVolumeDepth
    /\ manipulation_prob = None
    /\ manipulation_label = "<unset>"
    /\ algohouse_score = None
    /\ score_correlation = None
    /\ output = <<>>
    /\ exit_status = -1
    /\ evaluated = <<>>
    /\ given = NoGiven
    /\ at = "loop"
    /\ current_since = Since
    /\ all_trades_len = 0
    /\ requested = {}
    /\ iteration = 0

NextFetch == FetchPage \/ FetchEmptyPage \/ FetchPageRaises \/ LoopEnd

\* the process keeps running: an iteration that can be taken is taken
SpecFetch == InitFetch /\ [][NextFetch]_vars /\ WF_vars(NextFetch)

\* C12: the pagination loop terminates for every sequence of responses:
\* each iteration either leaves the loop or strictly increases the cursor
\* current_since, so that the cursor never stalls or moves backwards and
\* no page is requested twice.
C12_PaginationTerminates ==
    /\ [][iteration' # iteration =>
            /\ current_since \notin requested
            /\ at' # "loop" \/ current_since' > current_since]_vars
    /\ <>(at # "loop")

====
